---- MODULE Spec2Model ----
(***************************************************************************)
(* Vector pipeline of the local hybrid search engine: the documents,       *)
(* embeddings and emb_cache tables, the resumable embedding backfill,      *)
(* the IVF-PQ build / validate / flip sequence with the meta table, the    *)
(* vector searcher and the hybrid fuser.                                   *)
(*                                                                         *)
(* Tables are sequences of rows in insertion order (the store appends).    *)
(* A missing table reads as the empty sequence.                            *)
(***************************************************************************)
EXTENDS Integers, Sequences, FiniteSets, TLC

(***************************************************************************)
(* Bounds of the model.                                                    *)
(***************************************************************************)
MaxDocs == 2
MaxRuns == 2

\* Chunk ids and chunk contents an ingest may carry.
Ids == {"a", "b"}
Contents == {"x", "y"}
\* batch_size and limit_rows arguments of backfill_embeddings (Option as a set).
BatchSizes == {1, 2}
None == {}
Some(n) == {n}
Limits == {None, Some(0), Some(1)}

EMBEDDING_DIM == 1024
\* The embedder_id of the provider the backfill worker of this documents table runs with.
\* format!("local:{}:d{}", std::any::type_name::<Self>(), inner.dim())
LocalProviderId(dim) ==
    <<"local", "localdb_vector::embed_provider::local::LocalProvider", dim>>

ActiveProvider == LocalProviderId(EMBEDDING_DIM)

Min(a, b) == IF a < b THEN a ELSE b

(***************************************************************************)
(* Pure helpers.                                                           *)
(***************************************************************************)
\* blake3 hex digest of the content bytes: a collision-free function of the content.
hash_content(s) == <<"blake3", s>>

\* What a deterministic provider returns for one text: a vector of length
\* EMBEDDING_DIM fixed by (embedder_id, text).
Embed(eid, text) == [by |-> eid, of |-> text, len |-> EMBEDDING_DIM]

VARIABLES
    docs,        \* documents table
    embeddings,  \* embeddings side table
    emb_cache,   \* emb_cache table
    runs,        \* number of backfill runs started
    bf,          \* locals of the backfill run in progress
    ret,         \* what the last finished backfill run returned
    meta,        \* meta key/value table
    indexes,     \* names of the indexes that exist on documents.vector
    clock,       \* Utc::now() in seconds, as the build script formats it
    bld,         \* locals of the build script in progress
    answer,      \* what the last vector search returned, and what answered it
    hy,          \* the hybrid fuser: inputs and result of the last query
    call         \* a library function called on its own: arguments and results

bfVars == <<docs, embeddings, emb_cache, runs, bf, ret>>
ixVars == <<meta, indexes, clock, bld, answer>>
vars == <<docs, embeddings, emb_cache, runs, bf, ret, meta, indexes, clock, bld, answer, hy, call>>

\* call while no library function is called on its own.
NoCall == [op |-> "none"]

\* ret while no backfill run has returned since the last ingest, and during a run.
NoReturn == [op |-> "none", status |-> "none", value |-> 0]
Running == [op |-> "backfill", status |-> "running", value |-> 0]

IdleBf == [pc |-> "idle", batch_size |-> 1, limit_rows |-> None, working |-> TRUE,
           to_process |-> <<>>, offset |-> 0, processed |-> 0,
           vectors |-> <<>>, new_cache_entries |-> <<>>, miss_indices |-> <<>>,
           frontier_at_start |-> 0]

(***************************************************************************)
(* Ingest.                                                                 *)
(***************************************************************************)
\* Length of an optional vector; the empty Vec has length 0.
VecLen(vector) == IF vector = None THEN 0 ELSE (CHOOSE v \in vector : TRUE).len

\* The greatest embedded_at written so far.
LatestAt(rows) ==
    IF rows = <<>> THEN 0
    ELSE CHOOSE t \in {rows[i].embedded_at : i \in DOMAIN rows} :
            \A i \in DOMAIN rows : rows[i].embedded_at <= t

\* Utc::now() in milliseconds at an append. Only the order of the timestamps
\* counts: a batch is stamped later than every batch appended before it.
Now(rows) == LatestAt(rows) + 1

\* One documents row as docs_to_record_batch builds it from a LanceDocument at the
\* millisecond now.
DocRow(id, content, vector, now) ==
    IF vector = None
    THEN [id |-> id, content |-> content, content_hash |-> hash_content(content),
          vector |-> None, embedding_status |-> "new", embedding_error |-> None,
          embedding_version |-> 0, embedded_at |-> None,
          index_status |-> "stale", index_version |-> 0]
    ELSE [id |-> id, content |-> content, content_hash |-> hash_content(content),
          vector |-> vector, embedding_status |-> "ready", embedding_error |-> None,
          embedding_version |-> 1, embedded_at |-> Some(now),
          index_status |-> "stale", index_version |-> 0]

\* LanceDbIndexer::index for one chunk and its embedding: the dimension check
\* rejects every embedding whose length is not EMBEDDING_DIM, the empty one
\* included; an accepted chunk is appended to documents.
Index(id, content, embedding) ==
    /\ bf.pc = "idle"
    /\ Len(docs) < MaxDocs
    /\ IF VecLen(embedding) # EMBEDDING_DIM
       THEN UNCHANGED docs
       ELSE docs' = Append(docs, DocRow(id, content, embedding, Now(embeddings)))
    /\ ret' = NoReturn
    /\ UNCHANGED <<embeddings, emb_cache, runs, bf>>

\* The documents table seeded directly with rows that carry no vector
\* (embedding_status = new, embedding_version = 0), as the pipeline tests do.
SeedNew(id, content) ==
    /\ bf.pc = "idle"
    /\ Len(docs) < MaxDocs
    /\ docs' = Append(docs, DocRow(id, content, None, Now(embeddings)))
    /\ ret' = NoReturn
    /\ UNCHANGED <<embeddings, emb_cache, runs, bf>>

\* The content of a documents row is edited in place (an update of the content
\* column by the owner of the table): the stored content_hash stays what the
\* writer computed for the old content.
EditContent(i, content) ==
    /\ bf.pc = "idle"
    /\ i \in DOMAIN docs
    /\ content # docs[i].content
    /\ docs' = [docs EXCEPT ![i].content = content]
    /\ ret' = NoReturn
    /\ UNCHANGED <<embeddings, emb_cache, runs, bf>>

(***************************************************************************)
(* Cache layer.                                                            *)
(***************************************************************************)
RECURSIVE GetManyFrom(_, _, _, _, _)
GetManyFrom(rows, i, embedder_id, hashes, out) ==
    IF i > Len(rows) THEN out
    ELSE IF rows[i].embedder_id # embedder_id \/ rows[i].content_hash \notin hashes
         THEN GetManyFrom(rows, i + 1, embedder_id, hashes, out)
         ELSE IF rows[i].vector.len = EMBEDDING_DIM
              THEN GetManyFrom(rows, i + 1, embedder_id, hashes,
                               (rows[i].content_hash :> rows[i].vector) @@ out)
              ELSE GetManyFrom(rows, i + 1, embedder_id, hashes, out)

\* get_many: a scan of the cache table; a later row for the same hash replaces
\* an earlier one in the returned map.
get_many(table, embedder_id, hashes) ==
    GetManyFrom(table, 1, embedder_id, hashes, <<>>)

\* A cache of bounded size: the put appends and keeps the two newest rows.
put_many_evicting(table, entries) ==
    LET all == table \o [i \in DOMAIN entries |->
                            [content_hash |-> entries[i].content_hash,
                             embedder_id |-> entries[i].embedder_id,
                             vector |-> entries[i].vector]]
    IN IF Len(all) <= 2 THEN all ELSE SubSeq(all, Len(all) - 1, Len(all))

\* put_many: appends one row per entry (no lookup of existing rows). The record
\* batch cannot be built from a vector whose length is not EMBEDDING_DIM: the
\* call fails before it writes.
put_many(table, entries) ==
    IF entries = <<>> \/ \E i \in DOMAIN entries : entries[i].vector.len # EMBEDDING_DIM
    THEN table
    ELSE table \o [i \in DOMAIN entries |->
                     [content_hash |-> entries[i].content_hash,
                      embedder_id |-> entries[i].embedder_id,
                      vector |-> entries[i].vector]]

(***************************************************************************)
(* Backfill engine: backfill_embeddings, one action per store operation.   *)
(***************************************************************************)
RECURSIVE ScanFrom(_, _, _, _)
ScanFrom(rows, i, limit_rows, to_process) ==
    IF i > Len(rows) THEN to_process
    ELSE LET take == rows[i].embedding_status # "ready"
             tp == IF take
                   THEN Append(to_process,
                               [id |-> rows[i].id, content |-> rows[i].content,
                                chash |-> hash_content(rows[i].content)])
                   ELSE to_process
         IN IF limit_rows # None /\ \E lim \in limit_rows : Len(tp) >= lim
            THEN tp
            ELSE ScanFrom(rows, i + 1, limit_rows, tp)

\* A scan whose predicate is embedding_status = 'new': it passes over the rows an
\* earlier run left in_progress or error.
RECURSIVE ScanOnlyNewFrom(_, _, _, _)
ScanOnlyNewFrom(rows, i, limit_rows, to_process) ==
    IF i > Len(rows) THEN to_process
    ELSE LET take == rows[i].embedding_status = "new"
             tp == IF take
                   THEN Append(to_process,
                               [id |-> rows[i].id, content |-> rows[i].content,
                                chash |-> hash_content(rows[i].content)])
                   ELSE to_process
         IN IF limit_rows # None /\ \E lim \in limit_rows : Len(tp) >= lim
            THEN tp
            ELSE ScanOnlyNewFrom(rows, i + 1, limit_rows, tp)

ScanOnlyNew(rows, limit_rows) == ScanOnlyNewFrom(rows, 1, limit_rows, <<>>)

\* The frontier scan: the rows that are not ready, in table order, cut by limit_rows.
Scan(rows, limit_rows) == ScanFrom(rows, 1, limit_rows, <<>>)

\* to_process.chunks(batch_size): the chunk that starts at b.offset.
Chunk(b) ==
    SubSeq(b.to_process, b.offset + 1, Min(b.offset + b.batch_size, Len(b.to_process)))

ChunkIds(b) == {Chunk(b)[i].id : i \in DOMAIN Chunk(b)}

\* A reservation whose update has no id filter: it reserves every row.
MarkInProgressAll(rows, ids) ==
    [i \in DOMAIN rows |-> [rows[i] EXCEPT !.embedding_status = "in_progress"]]

\* update ... only_if(id IN ids) set embedding_status = 'in_progress'
MarkInProgress(rows, ids) ==
    [i \in DOMAIN rows |->
        IF rows[i].id \in ids
        THEN [rows[i] EXCEPT !.embedding_status = "in_progress"]
        ELSE rows[i]]

\* An error update that sets the status and leaves embedding_error as it was.
MarkErrorNoMessage(rows, ids, msg) ==
    [i \in DOMAIN rows |->
        IF rows[i].id \in ids
        THEN [rows[i] EXCEPT !.embedding_status = "error"]
        ELSE rows[i]]

\* update ... only_if(id IN ids) set embedding_status = 'error', embedding_error = msg
MarkError(rows, ids, msg) ==
    [i \in DOMAIN rows |->
        IF rows[i].id \in ids
        THEN [rows[i] EXCEPT !.embedding_status = "error", !.embedding_error = Some(msg)]
        ELSE rows[i]]

\* A ready update that leaves embedding_error as it was.
MarkReadyKeepsError(rows, ids, now) ==
    [i \in DOMAIN rows |->
        IF rows[i].id \in ids
        THEN [rows[i] EXCEPT !.embedding_status = "ready",
                             !.embedding_version = @ + 1, !.embedded_at = Some(now)]
        ELSE rows[i]]

\* update ... only_if(id IN ids) set embedding_status = 'ready', embedding_error = NULL,
\* embedding_version = embedding_version + 1, embedded_at = now,
\* content_hash = content_hash
MarkReady(rows, ids, now) ==
    [i \in DOMAIN rows |->
        IF rows[i].id \in ids
        THEN [rows[i] EXCEPT !.embedding_status = "ready", !.embedding_error = None,
                             !.embedding_version = @ + 1, !.embedded_at = Some(now)]
        ELSE rows[i]]

\* The indices of the chunk whose hash the cache does not hold.
MissIndices(chunk, cache_map) ==
    SelectSeq([i \in DOMAIN chunk |-> i],
              LAMBDA i : chunk[i].chash \notin DOMAIN cache_map)

\* The rows one batch appends to embeddings.
EmbRows(chunk, vectors, embedder_id, now) ==
    [i \in DOMAIN chunk |->
        [id |-> chunk[i].id, embedder_id |-> embedder_id, content_hash |-> chunk[i].chash,
         embedded_at |-> now, vector |-> vectors[i]]]

\* End of one loop iteration: the next chunk, or Ok(processed) after the last.
Continue(b, processed) ==
    IF b.offset + b.batch_size >= Len(b.to_process)
    THEN /\ bf' = IdleBf
         /\ ret' = [op |-> "backfill", status |-> "ok", value |-> processed]
    ELSE /\ bf' = [b EXCEPT !.pc = "mark_in_progress", !.offset = b.offset + b.batch_size,
                            !.processed = processed, !.vectors = <<>>,
                            !.new_cache_entries = <<>>, !.miss_indices = <<>>]
         /\ UNCHANGED ret

\* The run returns Err, or is cut off: its locals are gone.
Abort(b, status) ==
    /\ bf' = IdleBf
    /\ ret' = [op |-> "backfill", status |-> status, value |-> 0]

NotReadyCount(rows) == Cardinality({i \in DOMAIN rows : rows[i].embedding_status # "ready"})

\* Entry: scan documents for the frontier.
BfStart(batch_size, limit_rows, working) ==
    /\ bf.pc = "idle"
    /\ runs < MaxRuns
    /\ runs' = runs + 1
    /\ bf' = [IdleBf EXCEPT !.pc = "scanned", !.batch_size = batch_size,
                            !.limit_rows = limit_rows, !.working = working,
                            !.to_process = Scan(docs, limit_rows),
                            !.frontier_at_start = NotReadyCount(docs)]
    /\ ret' = Running
    /\ UNCHANGED <<docs, embeddings, emb_cache>>

\* Ok(0) on an empty frontier; otherwise the side tables are ensured (an absent
\* table and an empty one read the same) and the loop over the chunks begins.
BfEnsureTables ==
    /\ bf.pc = "scanned"
    /\ IF bf.to_process = <<>>
       THEN /\ bf' = IdleBf
            /\ ret' = [op |-> "backfill", status |-> "ok", value |-> 0]
       ELSE /\ bf' = [bf EXCEPT !.pc = "mark_in_progress"]
            /\ UNCHANGED ret
    /\ UNCHANGED <<docs, embeddings, emb_cache, runs>>

\* Step 1: reserve the chunk.
BfMarkInProgress ==
    /\ bf.pc = "mark_in_progress"
    /\ docs' = MarkInProgress(docs, ChunkIds(bf))
    /\ bf' = [bf EXCEPT !.pc = "embed"]
    /\ UNCHANGED <<embeddings, emb_cache, runs, ret>>

\* Steps 3-4: cache lookup, then embed_batch on the misses. outcome is what the
\* provider does with this batch.
BfEmbed(outcome) ==
    /\ bf.pc = "embed"
    /\ bf.working => outcome = "ok"
    /\ LET chunk == Chunk(bf)
           hashes == {chunk[i].chash : i \in DOMAIN chunk}
           cache_map == get_many(emb_cache, ActiveProvider, hashes)
           miss_indices == MissIndices(chunk, cache_map)
           vectors == [i \in DOMAIN chunk |->
                         IF chunk[i].chash \in DOMAIN cache_map
                         THEN cache_map[chunk[i].chash]
                         ELSE Embed(ActiveProvider, chunk[i].content)]
           new_cache_entries ==
               [j \in DOMAIN miss_indices |->
                   [content_hash |-> chunk[miss_indices[j]].chash,
                    embedder_id |-> ActiveProvider,
                    vector |-> vectors[miss_indices[j]]]]
       IN IF miss_indices = <<>>
          THEN /\ outcome = "ok"
               /\ bf' = [bf EXCEPT !.pc = "emb_add", !.vectors = vectors]
               /\ UNCHANGED ret
          ELSE CASE outcome = "ok" ->
                      /\ bf' = [bf EXCEPT !.pc = "cache_put", !.vectors = vectors,
                                          !.new_cache_entries = new_cache_entries,
                                          !.miss_indices = miss_indices]
                      /\ UNCHANGED ret
                 [] outcome = "embed_error" ->
                      /\ bf' = [bf EXCEPT !.pc = "mark_error", !.miss_indices = miss_indices]
                      /\ UNCHANGED ret
                 [] outcome \in {"wrong_count", "dim_mismatch"} ->
                      Abort(bf, "err")
    /\ UNCHANGED <<docs, embeddings, emb_cache, runs>>

\* The Err arm of embed_batch: the misses go to error, the batch is skipped.
BfMarkError ==
    /\ bf.pc = "mark_error"
    /\ docs' = MarkError(docs, {Chunk(bf)[bf.miss_indices[j]].id : j \in DOMAIN bf.miss_indices},
                         "embed failed")
    /\ Continue(bf, bf.processed)
    /\ UNCHANGED <<embeddings, emb_cache, runs>>

\* Step 5: write the new cache entries.
BfCachePut ==
    /\ bf.pc = "cache_put"
    /\ emb_cache' = put_many(emb_cache, bf.new_cache_entries)
    /\ bf' = [bf EXCEPT !.pc = "emb_add"]
    /\ UNCHANGED <<docs, embeddings, runs, ret>>

\* Step 6: append the batch to embeddings, every row stamped with the same now.
BfEmbAdd ==
    /\ bf.pc = "emb_add"
    /\ embeddings' = embeddings \o EmbRows(Chunk(bf), bf.vectors, ActiveProvider,
                                            Now(embeddings))
    /\ bf' = [bf EXCEPT !.pc = "mark_ready"]
    /\ UNCHANGED <<docs, emb_cache, runs, ret>>

\* Step 7: mark the chunk ready.
BfMarkReady ==
    /\ bf.pc = "mark_ready"
    /\ docs' = MarkReady(docs, ChunkIds(bf), Now(embeddings))
    /\ Continue(bf, bf.processed + Len(Chunk(bf)))
    /\ UNCHANGED <<embeddings, emb_cache, runs>>

\* The run is cut off between two store operations (a crash, a cancellation, or an
\* I/O error returned by `?`).
BfInterrupt ==
    /\ bf.pc # "idle"
    /\ Abort(bf, "interrupted")
    /\ UNCHANGED <<docs, embeddings, emb_cache, runs>>

Outcomes == {"ok", "embed_error", "wrong_count", "dim_mismatch"}

BfStep ==
    \/ BfEnsureTables
    \/ BfMarkInProgress
    \/ \E outcome \in Outcomes : BfEmbed(outcome)
    \/ BfMarkError
    \/ BfCachePut
    \/ BfEmbAdd
    \/ BfMarkReady


(***************************************************************************)
(* Hybrid fuser.  Scores are finite f32 values; only their order matters to *)
(* the merge, so they are drawn from a small range of integers.            *)
(***************************************************************************)
MaxHits == 2
HitIds == {"a", "b"}
Scores == {0, 1, 2}
TopKs == {0, 1, 2}

\* The hit lists a searcher may return: at most MaxHits hits, ids may repeat.
HitLists == UNION {[1..n -> [id : HitIds, score : Scores]] : n \in 0..MaxHits}

\* for h in &mut hits { h.source = ... }
Stamp(hits, source) ==
    [i \in DOMAIN hits |-> [id |-> hits[i].id, score |-> hits[i].score, source |-> source]]

\* The replacement test of the merge, keeping the hit with the lower score.
KeepsLower(h, old) == h.score < old.score

\* The replacement test of the merge, letting a later hit replace an equal one.
ReplacesOnTie(h, old) == h.score >= old.score

\* and_modify: if h.score > old.score { *old = h }
Replaces(h, old) == h.score > old.score

\* by_id after the hits from position i of the chain have gone through entry().
RECURSIVE MergeById(_, _, _)
MergeById(by_id, chain, i) ==
    IF i > Len(chain) THEN by_id
    ELSE LET h == chain[i]
             next == IF h.id \in DOMAIN by_id
                     THEN IF Replaces(h, by_id[h.id])
                          THEN [by_id EXCEPT ![h.id] = h]
                          ELSE by_id
                     ELSE [x \in DOMAIN by_id \cup {h.id} |->
                              IF x = h.id THEN h ELSE by_id[x]]
         IN MergeById(next, chain, i + 1)

\* The orders by_id.into_values() may yield the ids in.
ValueOrders(ids) ==
    {f \in [1..Cardinality(ids) -> ids] : \A i, j \in DOMAIN f : f[i] = f[j] => i = j}

\* One step of the stable sort: v goes after every hit whose score is not lower.
InsertDesc(sorted, v) ==
    LET before == {i \in DOMAIN sorted : sorted[i].score >= v.score}
        n == Cardinality(before)
    IN SubSeq(sorted, 1, n) \o <<v>> \o SubSeq(sorted, n + 1, Len(sorted))

\* merged.sort_by(|a, b| b.score.partial_cmp(&a.score)...): stable, descending.
RECURSIVE SortFrom(_, _, _)
SortFrom(values, i, sorted) ==
    IF i > Len(values) THEN sorted
    ELSE SortFrom(values, i + 1, InsertDesc(sorted, values[i]))

SortByScoreDesc(values) == SortFrom(values, 1, <<>>)

\* A cut that keeps the whole list.
KeepAll(merged, k) == merged

\* merged.truncate(k)
Truncate(merged, k) == SubSeq(merged, 1, Min(k, Len(merged)))

\* The merge of query(): dense hits chained before text hits, by_id, the values in
\* the order the map yields them, sorted.
Merged(dense_hits, text_hits, order) ==
    LET by_id == MergeById(<<>>, dense_hits \o text_hits, 1)
    IN SortByScoreDesc([i \in DOMAIN order |-> by_id[order[i]]])

MergedIds(dense_hits, text_hits) ==
    {(dense_hits \o text_hits)[i].id : i \in DOMAIN (dense_hits \o text_hits)}

IdleHy == [pc |-> "idle", k |-> 0, dense_hits |-> <<>>, text_hits |-> <<>>,
           merged |-> <<>>, result |-> <<>>, before |-> <<>>]

InitHybrid == hy = IdleHy

\* A query has reached the fuser and the two searchers have returned their hits.
Asked(vec_hits, lex_hits, k) ==
    [pc |-> "asked", k |-> k, dense_hits |-> Stamp(vec_hits, "Vector"),
     text_hits |-> Stamp(lex_hits, "Text"), merged |-> <<>>, result |-> <<>>,
     before |-> <<>>]

\* HybridSearchEngine::query from the merge on.
Query(order) ==
    LET merged == Merged(hy.dense_hits, hy.text_hits, order)
    IN /\ hy.pc = "asked"
       /\ order \in ValueOrders(MergedIds(hy.dense_hits, hy.text_hits))
       /\ hy' = [hy EXCEPT !.pc = "answered", !.merged = merged,
                           !.result = Truncate(merged, hy.k)]

Without(hits, i) == SubSeq(hits, 1, i - 1) \o SubSeq(hits, i + 1, Len(hits))

\* The same query again, after one hit has gone from one searcher's list.
QueryWithout(side, i, order) ==
    LET dense_hits == IF side = "Vector" THEN Without(hy.dense_hits, i) ELSE hy.dense_hits
        text_hits == IF side = "Text" THEN Without(hy.text_hits, i) ELSE hy.text_hits
        merged == Merged(dense_hits, text_hits, order)
    IN /\ hy.pc = "answered"
       /\ i \in DOMAIN (IF side = "Vector" THEN hy.dense_hits ELSE hy.text_hits)
       /\ order \in ValueOrders(MergedIds(dense_hits, text_hits))
       /\ hy' = [pc |-> "requeried", k |-> hy.k, dense_hits |-> dense_hits,
                 text_hits |-> text_hits, merged |-> merged,
                 result |-> Truncate(merged, hy.k), before |-> hy.result]

(***************************************************************************)
(* Meta table, index build script and vector searcher.                     *)
(***************************************************************************)
MaxBuilds == 2
MaxClock == 2
\* The sample size the build script passes to validate_index.
VALIDATE_SAMPLE == 32

\* format!("active_index_id:{}", docs_table)
ActiveKey == <<"active_index_id", "documents">>

\* format!("ivfpq-{}-{}", ts, embedder_id.replace(':', "_")) for the second ts.
IndexName(ts) == <<"ivfpq", ts, ActiveProvider>>

\* get_meta: the value of the first row the filter key = '...' returns, if any.
get_meta(table, key) ==
    LET hits == {i \in DOMAIN table : table[i].key = key}
    IN IF hits = {} THEN None
       ELSE Some(table[CHOOSE i \in hits : \A j \in hits : i <= j].value)

\* A write of the pointer that appends instead of merging on the key.
set_meta_append(table, key, value) == Append(table, [key |-> key, value |-> value])

\* set_meta: merge_insert on key, when_matched_update_all, when_not_matched_insert_all.
set_meta(table, key, value) ==
    IF \E i \in DOMAIN table : table[i].key = key
    THEN [i \in DOMAIN table |->
            IF table[i].key = key THEN [key |-> key, value |-> value] ELSE table[i]]
    ELSE Append(table, [key |-> key, value |-> value])

\* count_ready_vectors: the documents rows whose vector is not null.
count_ready_vectors(rows) == Cardinality({i \in DOMAIN rows : rows[i].vector # None})

\* (n as f64).sqrt() as usize: the greatest r with r * r <= n, found by bisection
\* (46340 is the greatest root of a number below 2^31).
RECURSIVE IsqrtIn(_, _, _)
IsqrtIn(n, lo, hi) ==
    IF lo >= hi THEN lo
    ELSE LET mid == (lo + hi + 1) \div 2
         IN IF mid * mid <= n THEN IsqrtIn(n, mid, hi) ELSE IsqrtIn(n, lo, mid - 1)

Isqrt(n) == IsqrtIn(n, 0, Min(n, 46340))

Max(a, b) == IF a > b THEN a ELSE b

\* compute_ivfpq_params without the clamp for tiny datasets.
compute_ivfpq_params_unclamped(total_ready, dim) ==
    [nlist |-> Min(Max(2048, 2 * Isqrt(total_ready)), 65536),
     m |-> IF dim >= 1024 THEN 32 ELSE 16,
     nbits |-> 8]

compute_ivfpq_params(total_ready, dim) ==
    LET sqrt_n == Isqrt(total_ready)
        nlist0 == Min(Max(2048, 2 * sqrt_n), 65536)
        nlist == IF total_ready > 1 THEN Min(nlist0, total_ready - 1) ELSE 1
        m == IF dim >= 1024 THEN 32 ELSE 16
    IN [nlist |-> nlist, m |-> m, nbits |-> 8]

\* The embeddings rows of this embedder_id that carry id: the source rows of the
\* merge that match the documents rows of that id.
SyncSource(emb, embedder_id, id) ==
    {j \in DOMAIN emb : emb[j].embedder_id = embedder_id /\ emb[j].id = id}

\* The source row the store lets win for each id (0: the id has no source row).
SyncPicks(emb, embedder_id) ==
    {pick \in [Ids -> DOMAIN emb \cup {0}] :
        \A id \in Ids :
           IF SyncSource(emb, embedder_id, id) = {} THEN pick[id] = 0
           ELSE pick[id] \in SyncSource(emb, embedder_id, id)}

\* The row when_not_matched_insert_all inserts for a source row (id, vector) that
\* matches no documents row: the columns the source does not carry are empty.
InsertedRow(id, vector) ==
    [id |-> id, content |-> "", content_hash |-> <<"null">>,
     vector |-> Some(vector), embedding_status |-> "", embedding_error |-> None,
     embedding_version |-> 0, embedded_at |-> None,
     index_status |-> "", index_version |-> 0]

\* The source rows that match no documents row, one per id, as rows to insert.
RECURSIVE NotMatched(_, _, _, _)
NotMatched(rows, emb, pick, ids) ==
    IF ids = {} THEN <<>>
    ELSE LET id == CHOOSE x \in ids : TRUE
             rest == NotMatched(rows, emb, pick, ids \ {id})
         IN IF pick[id] # 0 /\ ~\E i \in DOMAIN rows : rows[i].id = id
            THEN <<InsertedRow(id, emb[pick[id]].vector)>> \o rest
            ELSE rest

\* A merge that writes the source's vector column over every documents row: the
\* rows with no source row lose their vector.
sync_clearing_unmatched(rows, emb, pick) ==
    [i \in DOMAIN rows |->
        IF pick[rows[i].id] # 0
        THEN [rows[i] EXCEPT !.vector = Some(emb[pick[rows[i].id]].vector)]
        ELSE [rows[i] EXCEPT !.vector = None]]

\* sync_serving_vectors_from_embeddings: merge_insert (id, vector) into documents
\* on id; a matched row takes the vector of its id's source row, a source row
\* that matches nothing is inserted.
sync_serving_vectors(rows, emb, pick) ==
    [i \in DOMAIN rows |->
        IF pick[rows[i].id] # 0
        THEN [rows[i] EXCEPT !.vector = Some(emb[pick[rows[i].id]].vector)]
        ELSE rows[i]]
    \o NotMatched(rows, emb, pick, Ids)

IdleBld == [pc |-> "idle", builds |-> 0, prev_active |-> None, index_name |-> <<>>,
            params |-> [nlist |-> 1, m |-> 32, nbits |-> 8], answered |-> {}]

\* The build script starts; prev_active remembers the pointer it found.
BuildStart ==
    /\ bld.pc \in {"idle", "flipped"}
    /\ bld.builds < MaxBuilds
    /\ bld' = [IdleBld EXCEPT !.pc = "sync", !.builds = bld.builds + 1,
                              !.prev_active = get_meta(meta, ActiveKey)]
    /\ UNCHANGED <<docs, embeddings, meta, indexes, clock, answer>>

\* 1) copy vectors from embeddings into documents.vector
BuildSync ==
    /\ bld.pc = "sync"
    /\ \E pick \in SyncPicks(embeddings, ActiveProvider) :
          docs' = sync_serving_vectors(docs, embeddings, pick)
    /\ bld' = [bld EXCEPT !.pc = "size"]
    /\ UNCHANGED <<embeddings, meta, indexes, clock, answer>>

\* 2) count the ready vectors and size the parameters
BuildSize ==
    /\ bld.pc = "size"
    /\ bld' = [bld EXCEPT !.pc = "build",
                          !.params = compute_ivfpq_params(count_ready_vectors(docs),
                                                          EMBEDDING_DIM)]
    /\ UNCHANGED <<docs, embeddings, meta, indexes, clock, answer>>

\* 3) build_ivfpq_index under a name stamped with the current second. The store
\* may refuse to train (too few vectors): the script then ends with the error.
BuildIndex(trained) ==
    /\ bld.pc = "build"
    /\ count_ready_vectors(docs) = 0 => ~trained
    /\ IF trained
       THEN /\ indexes' = indexes \cup {IndexName(clock)}
            /\ bld' = [bld EXCEPT !.pc = "validate", !.index_name = IndexName(clock)]
       ELSE /\ bld' = [bld EXCEPT !.pc = "idle"]
            /\ UNCHANGED indexes
    /\ UNCHANGED <<docs, embeddings, meta, clock, answer>>

\* The probes of validate_index: the rows among the first sample rows that carry a
\* vector.
Probes(rows, sample) == {i \in DOMAIN rows : i <= sample /\ rows[i].vector # None}

\* validate_index: one search per probe; nonempty is the set of rows whose search
\* returned at least one row.
validate_index(rows, sample, nonempty) ==
    Cardinality({i \in Probes(rows, sample) : i \in nonempty}) > 0

\* 4) validate; the script flips only a valid build. answered keeps the probes
\* whose search returned a row.
BuildValidate(nonempty) ==
    /\ bld.pc = "validate"
    /\ bld' = [bld EXCEPT !.pc = IF validate_index(docs, VALIDATE_SAMPLE, nonempty)
                                 THEN "flip" ELSE "idle",
                          !.answered = Probes(docs, VALIDATE_SAMPLE) \cap nonempty]
    /\ UNCHANGED <<docs, embeddings, meta, indexes, clock, answer>>

\* flip_active_index: set_meta("meta", "active_index_id:{docs_table}", index_id)
flip_active_index(table, index_id) == set_meta(table, ActiveKey, index_id)

BuildFlip ==
    /\ bld.pc = "flip"
    /\ meta' = flip_active_index(meta, bld.index_name)
    /\ bld' = [bld EXCEPT !.pc = "flipped"]
    /\ UNCHANGED <<docs, embeddings, indexes, clock, answer>>

\* The script is cancelled between two steps.
BuildCancel ==
    /\ bld.pc \in {"sync", "size", "build", "validate", "flip"}
    /\ bld' = [bld EXCEPT !.pc = "idle"]
    /\ UNCHANGED <<docs, embeddings, meta, indexes, clock, answer>>

Tick ==
    /\ clock < MaxClock
    /\ clock' = clock + 1
    /\ UNCHANGED <<docs, embeddings, meta, indexes, bld, answer>>

\* What answers a search when no index does.
FlatScan == <<"flat">>
NoIndex == <<"none">>

\* Scores and distances are f32 values counted in tenths: ScoreOne is 1.0.
ScoreOne == 10

\* The cosine distances the store may report for a row, 0.0 to 2.0.
Distances == {0, 5, 10, 15, 20}

\* let score = if let Some(_distance) { 1.0 - distance } else { 0.5 }
Similarity(distance) ==
    IF distance = None THEN ScoreOne \div 2
    ELSE ScoreOne - (CHOOSE d \in distance : TRUE)

\* search_vec: table.vector_search(q).limit(k) on documents. The store answers
\* from an index it finds on the column, or by a flat scan when there is none;
\* meta is not read. An absent documents table is the store's error. Of the
\* hits, answer keeps the score of one, whose distance the store reported.
SearchVec(by, distance) ==
    /\ IF docs = <<>>
       THEN /\ by = NoIndex
            /\ distance = 0
            /\ answer' = [status |-> "store_error", by |-> by,
                          active |-> get_meta(meta, ActiveKey), score |-> None]
       ELSE /\ IF indexes = {} THEN by = FlatScan ELSE by \in indexes
            /\ answer' = [status |-> "ok", by |-> by,
                          active |-> get_meta(meta, ActiveKey),
                          score |-> Some(Similarity(Some(distance)))]
    /\ UNCHANGED <<docs, embeddings, meta, indexes, clock, bld>>

\* Documents tables a build may find: rows the backfill has made ready (a row of
\* embeddings each), rows ingested with their vector, rows still new, and rows
\* embedded twice: a first run appended the embeddings row of content x and was cut
\* off before the ready update, the content became y, a second run appended the
\* row of y and marked the row ready.
RowKinds == {"backfilled", "reembedded", "indexed", "new"}
SeqIds == <<"a", "b">>
RowId(i) == SeqIds[((i - 1) % Len(SeqIds)) + 1]

BuiltDocs(kinds) ==
    [i \in DOMAIN kinds |->
        CASE kinds[i] = "indexed" ->
                DocRow(RowId(i), "x", Some(Embed(ActiveProvider, "x")), 1)
          [] kinds[i] = "backfilled" ->
                MarkReady(<<DocRow(RowId(i), "x", None, 1)>>, {RowId(i)}, 1)[1]
          [] kinds[i] = "reembedded" ->
                [MarkReady(<<DocRow(RowId(i), "x", None, 1)>>, {RowId(i)}, 2)[1]
                    EXCEPT !.content = "y"]
          [] OTHER -> DocRow(RowId(i), "x", None, 1)]

\* The embeddings row one run appends for a row of documents.
BuiltEmbedding(id, content, now) ==
    [id |-> id, embedder_id |-> ActiveProvider, content_hash |-> hash_content(content),
     embedded_at |-> now, vector |-> Embed(ActiveProvider, content)]

RECURSIVE BuiltEmbeddingsFrom(_, _)
BuiltEmbeddingsFrom(kinds, i) ==
    IF i > Len(kinds) THEN <<>>
    ELSE (CASE kinds[i] = "backfilled" -> <<BuiltEmbedding(RowId(i), "x", 1)>>
            [] kinds[i] = "reembedded" -> <<BuiltEmbedding(RowId(i), "x", 1),
                                            BuiltEmbedding(RowId(i), "y", 2)>>
            [] OTHER -> <<>>)
         \o BuiltEmbeddingsFrom(kinds, i + 1)

BuiltEmbeddings(kinds) == BuiltEmbeddingsFrom(kinds, 1)

InitIndex ==
    /\ meta = <<>>
    /\ indexes = {}
    /\ clock = 0
    /\ bld = IdleBld
    /\ answer = [status |-> "none", by |-> NoIndex, active |-> None, score |-> None]

InitIndexTables ==
    /\ \E n \in 0..MaxDocs : \E kinds \in [1..n -> RowKinds] :
          /\ docs = BuiltDocs(kinds)
          /\ embeddings = BuiltEmbeddings(kinds)
    /\ emb_cache = <<>>
    /\ runs = 0
    /\ bf = IdleBf
    /\ ret = NoReturn

\* The tables are at rest while the script and the searcher run.
TablesAtRest == UNCHANGED <<emb_cache, runs, bf, ret, hy, call>>

IndexNext ==
    \/ BuildStart /\ TablesAtRest
    \/ BuildSync /\ TablesAtRest
    \/ BuildSize /\ TablesAtRest
    \/ (\E trained \in BOOLEAN : BuildIndex(trained)) /\ TablesAtRest
    \/ (\E nonempty \in SUBSET (1..MaxDocs) : BuildValidate(nonempty)) /\ TablesAtRest
    \/ BuildFlip /\ TablesAtRest
    \/ BuildCancel /\ TablesAtRest
    \/ Tick /\ TablesAtRest
    \/ (\E by \in indexes \cup {FlatScan, NoIndex}, distance \in Distances :
          SearchVec(by, distance)) /\ TablesAtRest

\* The build script, the clock and the searcher over a documents table at rest.
InitBuilt == InitIndexTables /\ InitIndex /\ InitHybrid /\ call = NoCall

SpecIndex == InitBuilt /\ [][IndexNext]_vars

(***************************************************************************)
(* compute_ivfpq_params called on its own, over dataset sizes and          *)
(* dimensions.                                                             *)
(***************************************************************************)
MaxReady == 40

\* Dataset sizes: the tiny ones, and the ones around each switch of the formula.
TotalReadies ==
    0..MaxReady \cup {2047, 2048, 2049, 2050, 1050624, 1050625, 1073741823,
                      1073741824, 2147483647}
Dims == {512, 1023, 1024, 1536}

ComputeParams ==
    /\ call.op = "compute_ivfpq_params"
    /\ call.pc = "called"
    /\ call' = [call EXCEPT !.pc = "returned",
                            !.params = compute_ivfpq_params(call.total_ready, call.dim)]
    /\ UNCHANGED <<bfVars, ixVars, hy>>

(***************************************************************************)
(* Chunker: DataProcessor::process_directory over a directory of .txt      *)
(* files.  A file's content is its paragraphs (the pieces between blank    *)
(* lines), each known by its number of words.                              *)
(***************************************************************************)
MaxFiles == 2
MaxParagraphs == 2

\* ChunkingConfig::default().max_tokens
MAX_TOKENS == 500
\* words_per_chunk, and (words_per_chunk as f32 * overlap_percent) as usize
WORDS_PER_CHUNK == 300
OVERLAP_WORDS == 60

\* The .txt paths of the tree, in the order txt_files.sort() leaves them.
TxtPaths == << <<"a", "notes">>, <<"a", "todo">>, <<"b", "notes">> >>

\* Words of a paragraph: none (blank after trim), one, and enough to be split.
WordCounts == {0, 1, 376}
FileContents == UNION {[1..n -> WordCounts] : n \in 0..MaxParagraphs}

\* A path with no file behind it.
Absent == <<-1>>

\* The trees: which of the paths exist, and the content of each.
Trees ==
    {t \in [1..Len(TxtPaths) -> FileContents \cup {Absent}] :
        Cardinality({i \in DOMAIN t : t[i] # Absent}) <= MaxFiles}

\* list_txt_files: the files that exist, sorted by path.
list_txt_files(tree) ==
    LET present == SelectSeq([i \in DOMAIN tree |-> i], LAMBDA i : tree[i] # Absent)
    IN [k \in DOMAIN present |-> [path |-> TxtPaths[present[k]], content |-> tree[present[k]]]]

\* file_path.file_stem()
extract_doc_id(file_path) == file_path[2]

\* The parent of the path relative to the data directory.
get_facet_from_path(file_path) == file_path[1]

\* (word_count as f32 / 0.75) as usize
count_tokens(word_count) == (word_count * 4) \div 3

\* A loop that starts the next window where the last one ended.
NextStartNoOverlap(end) == end

\* start = end - overlap_words
NextStart(end) == end - OVERLAP_WORDS

\* The word ranges [start, end) split_paragraph_with_overlap cuts a paragraph into.
RECURSIVE SplitFrom(_, _, _)
SplitFrom(words, start, chunks) ==
    IF start >= words THEN chunks
    ELSE LET end == Min(start + WORDS_PER_CHUNK, words)
             next == Append(chunks, [start |-> start, end |-> end])
         IN IF end >= words THEN next
            ELSE SplitFrom(words, NextStart(end), next)

split_paragraph_with_overlap(words) == SplitFrom(words, 0, <<>>)

\* The pieces one paragraph gives: itself when it is short enough, its sub-chunks
\* otherwise, none when it is blank.
Pieces(p, words) ==
    IF words = 0 THEN <<>>
    ELSE IF count_tokens(words) <= MAX_TOKENS
         THEN <<[paragraph |-> p, start |-> 0, end |-> words]>>
         ELSE [k \in DOMAIN split_paragraph_with_overlap(words) |->
                 [paragraph |-> p,
                  start |-> split_paragraph_with_overlap(words)[k].start,
                  end |-> split_paragraph_with_overlap(words)[k].end]]

RECURSIVE AllPieces(_, _)
AllPieces(content, p) ==
    IF p > Len(content) THEN <<>>
    ELSE Pieces(p, content[p]) \o AllPieces(content, p + 1)

\* chunk_content: one chunk per piece, numbered from 0 in order; total_chunks is
\* the number of chunks of this file.
chunk_content(content, doc_id, file_path, category) ==
    LET pieces == AllPieces(content, 1)
    IN [k \in DOMAIN pieces |->
          [id |-> <<doc_id, k - 1>>, doc_id |-> doc_id, doc_path |-> file_path,
           category |-> category, content |-> pieces[k], chunk_index |-> k - 1,
           total_chunks |-> Len(pieces)]]

RECURSIVE ProcessFiles(_, _)
ProcessFiles(files, i) ==
    IF i > Len(files) THEN <<>>
    ELSE chunk_content(files[i].content, extract_doc_id(files[i].path), files[i].path,
                       get_facet_from_path(files[i].path))
         \o ProcessFiles(files, i + 1)

process_directory(tree) == ProcessFiles(list_txt_files(tree), 1)

\* process_directory is called on the tree.
ProcessDirectory ==
    /\ call.op = "process_directory"
    /\ call.pc = "called"
    /\ call' = [call EXCEPT !.pc = "returned", !.chunks = process_directory(call.tree)]
    /\ UNCHANGED <<bfVars, ixVars, hy>>

(***************************************************************************)
(* split_paragraph_with_overlap called on its own on a paragraph of words  *)
(* words, one action per iteration of its while loop.                      *)
(***************************************************************************)
MaxWords == 440

\* Paragraphs that exceed max_tokens: the shortest ones, and the lengths around the
\* ends of the second, third and fourth window.
SplitWords == 376..MaxWords \cup {539, 540, 541, 779, 780, 781, 1019, 1020, 1021}

SplitStep ==
    /\ call.op = "split_paragraph_with_overlap"
    /\ call.pc = "loop"
    /\ IF call.start >= call.words
       THEN call' = [call EXCEPT !.pc = "returned"]
       ELSE LET end == Min(call.start + WORDS_PER_CHUNK, call.words)
                next == Append(call.chunks, [start |-> call.start, end |-> end])
            IN IF end >= call.words
               THEN call' = [call EXCEPT !.chunks = next, !.pc = "returned"]
               ELSE call' = [call EXCEPT !.chunks = next, !.start = NextStart(end)]
    /\ UNCHANGED <<bfVars, ixVars, hy>>

(***************************************************************************)
(* The cache called on its own: put_many of one entry list, twice.         *)
(***************************************************************************)
MaxCacheRows == 1
MaxEntries == 2

\* A second provider, to key cache rows the active one must not see.
OtherProvider == <<"remote", "OtherProvider", EMBEDDING_DIM>>
Providers == {ActiveProvider, OtherProvider}
Hashes == {hash_content(c) : c \in Contents}

\* The vectors an entry may carry: what a provider returns for a content, and
\* one of the wrong length.
ShortVector == [by |-> ActiveProvider, of |-> "x", len |-> EMBEDDING_DIM - 1]
EntryVectors == {Embed(ActiveProvider, c) : c \in Contents} \cup {ShortVector}

CacheEntries == [content_hash : Hashes, embedder_id : Providers, vector : EntryVectors]

\* The rows a cache table may hold: put_many writes no row of the wrong length.
CacheRows == {e \in CacheEntries : e.vector.len = EMBEDDING_DIM}

CacheTables == UNION {[1..n -> CacheRows] : n \in 0..MaxCacheRows}
EntryLists == UNION {[1..n -> CacheEntries] : n \in 0..MaxEntries}

\* put_many(E) on the cache table; once keeps the table as the first call left it.
CachePutMany ==
    /\ call.op = "put_many"
    /\ call.puts < 2
    /\ emb_cache' = put_many(emb_cache, call.entries)
    /\ call' = [call EXCEPT !.puts = call.puts + 1,
                            !.once = IF call.puts = 0 THEN emb_cache' ELSE call.once]
    /\ UNCHANGED <<docs, embeddings, runs, bf, ret, ixVars, hy>>

\* get_default_embedder: the fake embedder when APP_USE_FAKE_EMBEDDINGS is set, the
\* model otherwise; both of dimension 1024.
get_default_embedder(use_fake) ==
    IF use_fake THEN [kind |-> "FakeEmbedder", dim |-> 1024]
    ELSE [kind |-> "BgeM3Embedder", dim |-> 1024]

\* LocalProvider::new
LocalProvider_new(use_fake) ==
    LET inner == get_default_embedder(use_fake)
    IN [inner |-> inner, id |-> LocalProviderId(inner.dim)]

\* provider.embed_batch of one text: the vector its inner embedder computes.
EmbedBy(provider, text) ==
    [by |-> provider.inner.kind, of |-> text, len |-> provider.inner.dim]

\* A process builds its LocalProvider and embeds one content through the cache, as
\* a backfill batch does: lookup under the provider's id, embed and write through
\* on a miss.
ProviderEmbedCached(use_fake, content) ==
    LET provider == LocalProvider_new(use_fake)
        h == hash_content(content)
        cache_map == get_many(emb_cache, provider.id, {h})
    IN /\ call.op = "providers"
       /\ Len(emb_cache) < MaxEntries
       /\ emb_cache' =
             IF h \in DOMAIN cache_map THEN emb_cache
             ELSE put_many(emb_cache, <<[content_hash |-> h, embedder_id |-> provider.id,
                                         vector |-> EmbedBy(provider, content)]>>)
       /\ call' = [op |-> "providers", inner |-> provider.inner.kind,
                   cache_map |-> cache_map]
       /\ UNCHANGED <<docs, embeddings, runs, bf, ret, ixVars, hy>>

InitCache ==
    /\ docs = <<>>
    /\ embeddings = <<>>
    /\ runs = 0
    /\ bf = IdleBf
    /\ ret = NoReturn
    /\ InitIndex
    /\ InitHybrid
    /\ \/ \E table \in CacheTables, entries \in EntryLists :
             /\ emb_cache = table
             /\ call = [op |-> "put_many", entries |-> entries, puts |-> 0,
                        before |-> table, once |-> <<>>]
       \/ /\ emb_cache = <<>>
          /\ call = [op |-> "providers", inner |-> "none", cache_map |-> <<>>]

CacheNext ==
    \/ CachePutMany
    \/ \E use_fake \in BOOLEAN, content \in Contents : ProviderEmbedCached(use_fake, content)

\* The cache alone, over every table and every entry list.
SpecCache == InitCache /\ [][CacheNext]_vars

\* The tables before the first ingest, no run, no build, no query.
InitBackfill ==
    /\ docs = <<>>
    /\ embeddings = <<>>
    /\ emb_cache = <<>>
    /\ runs = 0
    /\ bf = IdleBf
    /\ ret = NoReturn

Init == InitBackfill /\ InitIndex /\ InitHybrid /\ call = NoCall

\* Ingest and backfill runs; the index and the fuser are at rest.
AtRest == UNCHANGED <<ixVars, hy, call>>

Next ==
    \/ /\ \E id \in Ids, content \in Contents :
             \E embedding \in {None, Some(Embed(ActiveProvider, content))} :
                Index(id, content, embedding)
       /\ AtRest
    \/ /\ \E id \in Ids, content \in Contents : SeedNew(id, content)
       /\ AtRest
    \/ /\ \E batch_size \in BatchSizes, limit_rows \in Limits, working \in BOOLEAN :
             BfStart(batch_size, limit_rows, working)
       /\ AtRest
    \/ BfEnsureTables /\ AtRest
    \/ BfMarkInProgress /\ AtRest
    \/ (\E outcome \in Outcomes : BfEmbed(outcome)) /\ AtRest
    \/ BfMarkError /\ AtRest
    \/ BfCachePut /\ AtRest
    \/ BfEmbAdd /\ AtRest
    \/ BfMarkReady /\ AtRest
    \/ BfInterrupt /\ AtRest

Spec == Init /\ [][Next]_vars

\* A run, once started, keeps taking its steps until it returns or is cut off.
FairSpec == Spec /\ WF_vars(BfStep /\ AtRest)

\* Seeded rows, content edits and backfill runs.
EditNext ==
    \/ /\ \E id \in Ids, content \in Contents : SeedNew(id, content)
       /\ AtRest
    \/ /\ \E i \in 1..MaxDocs, content \in Contents : EditContent(i, content)
       /\ AtRest
    \/ /\ \E batch_size \in BatchSizes, limit_rows \in Limits, working \in BOOLEAN :
             BfStart(batch_size, limit_rows, working)
       /\ AtRest
    \/ BfEnsureTables /\ AtRest
    \/ BfMarkInProgress /\ AtRest
    \/ (\E outcome \in Outcomes : BfEmbed(outcome)) /\ AtRest
    \/ BfMarkError /\ AtRest
    \/ BfCachePut /\ AtRest
    \/ BfEmbAdd /\ AtRest
    \/ BfMarkReady /\ AtRest
    \/ BfInterrupt /\ AtRest

SpecEdit == Init /\ [][EditNext]_vars

(***************************************************************************)
(* Two backfill workers over the same documents table and provider.  The   *)
(* steps above are those of the worker that holds bf and ret; the locals   *)
(* of the other worker wait in call, and the scheduler may hand over at    *)
(* every await.                                                            *)
(***************************************************************************)
OtherWorker == [op |-> "backfill_embeddings", bf |-> IdleBf, ret |-> NoReturn]

\* The other worker is scheduled; the tables are as they are.
Switch ==
    /\ call.op = "backfill_embeddings"
    /\ bf' = call.bf
    /\ ret' = call.ret
    /\ call' = [call EXCEPT !.bf = bf, !.ret = ret]
    /\ UNCHANGED <<docs, embeddings, emb_cache, runs, ixVars, hy>>

InitTwo == InitBackfill /\ InitIndex /\ InitHybrid /\ call = OtherWorker

\* Seeded rows and two workers whose provider succeeds.
TwoNext ==
    \/ /\ \E id \in Ids, content \in Contents : SeedNew(id, content)
       /\ AtRest
    \/ /\ \E batch_size \in BatchSizes, limit_rows \in Limits :
             BfStart(batch_size, limit_rows, TRUE)
       /\ AtRest
    \/ BfEnsureTables /\ AtRest
    \/ BfMarkInProgress /\ AtRest
    \/ BfEmbed("ok") /\ AtRest
    \/ BfCachePut /\ AtRest
    \/ BfEmbAdd /\ AtRest
    \/ BfMarkReady /\ AtRest
    \/ Switch

SpecTwo == InitTwo /\ [][TwoNext]_vars

SplitNext == SplitStep

InitSplit ==
    /\ InitBackfill
    /\ InitIndex
    /\ InitHybrid
    /\ \E words \in SplitWords :
          call = [op |-> "split_paragraph_with_overlap", pc |-> "loop",
                  words |-> words, start |-> 0, chunks |-> <<>>]

SpecSplit == InitSplit /\ [][SplitNext]_vars

\* The loop runs on once entered.
FairSpecSplit == SpecSplit /\ WF_vars(SplitStep)

ParamsNext == ComputeParams

InitParams ==
    /\ InitBackfill
    /\ InitIndex
    /\ InitHybrid
    /\ \E total_ready \in TotalReadies, dim \in Dims :
          call = [op |-> "compute_ivfpq_params", pc |-> "called",
                  total_ready |-> total_ready, dim |-> dim,
                  params |-> [nlist |-> 0, m |-> 0, nbits |-> 0]]

\* compute_ivfpq_params alone, over every size and dimension.
SpecParams == InitParams /\ [][ParamsNext]_vars

ChunkerNext == ProcessDirectory

InitChunker ==
    /\ InitBackfill
    /\ InitIndex
    /\ InitHybrid
    /\ \E tree \in Trees :
          call = [op |-> "process_directory", pc |-> "called", tree |-> tree, chunks |-> <<>>]

\* The chunker alone, over every tree.
SpecChunker == InitChunker /\ [][ChunkerNext]_vars

\* Every order ids may come out of the map in.
Orders == UNION {[1..n -> HitIds] : n \in 0..Cardinality(HitIds)}

\* The stores are at rest while the fuser merges.
StoresAtRest == UNCHANGED <<bfVars, ixVars, call>>

HybridNext ==
    \/ (\E order \in Orders : Query(order)) /\ StoresAtRest
    \/ /\ \E side \in {"Vector", "Text"}, i \in 1..MaxHits :
             \E order \in Orders : QueryWithout(side, i, order)
       /\ StoresAtRest

InitAsked ==
    /\ InitBackfill
    /\ InitIndex
    /\ call = NoCall
    /\ \E vec_hits \in HitLists, lex_hits \in HitLists, k \in TopKs :
          hy = Asked(vec_hits, lex_hits, k)

\* The fuser alone, over every pair of hit lists the searchers may return.
SpecHybrid == InitAsked /\ [][HybridNext]_vars

(***************************************************************************)
(* Properties of the backfill engine.                                      *)
(***************************************************************************)
AllReady(rows) == \A i \in DOMAIN rows : rows[i].embedding_status = "ready"

\* A chunk is reserved and not yet marked ready or error.
Reserved == bf.pc \in {"embed", "cache_put", "emb_add", "mark_ready", "mark_error"}

\* C1: every documents row with embedding_status = ready has an embeddings row
\* with the same id, the active provider's embedder_id and the row's content_hash.
C1_ReadyHasEmbedding ==
    \A i \in DOMAIN docs :
        docs[i].embedding_status = "ready" =>
            \E j \in DOMAIN embeddings :
                /\ embeddings[j].id = docs[i].id
                /\ embeddings[j].embedder_id = ActiveProvider
                /\ embeddings[j].content_hash = docs[i].content_hash

\* A run with no limit and a provider that succeeds on every batch.
FullWorkingRun == bf.pc # "idle" /\ bf.working /\ bf.limit_rows = None

C2_Returns ==
    (FullWorkingRun /\ bf'.pc = "idle" /\ ret'.status = "ok") =>
        /\ ret'.value = bf.frontier_at_start
        /\ AllReady(docs')

C2_Terminates ==
    FullWorkingRun ~>
        (bf.pc = "idle" /\ (ret.status = "interrupted" \/ (ret.status = "ok" /\ AllReady(docs))))

\* C2: a run with no limit and a provider that succeeds on every batch ends (unless
\* it is cut off), returns the number of rows that were not ready when it started,
\* and leaves every documents row ready.
C2_FullRunDrivesAllReady == [][C2_Returns]_vars /\ C2_Terminates

\* A finished full run that processed two rows and left the table ready.
C2_Witness ==
    /\ bf.pc = "idle" /\ ret.op = "backfill" /\ ret.status = "ok" /\ ret.value = 2
    /\ Len(docs) = 2 /\ AllReady(docs)

\* While a chunk is reserved its rows are in_progress; a step of the batch (its
\* reservation included) touches no row outside the chunk, and a cut-off changes
\* no row at all.
C3_Batch ==
    /\ Reserved =>
          \A i \in DOMAIN docs :
              docs[i].id \in ChunkIds(bf) => docs[i].embedding_status = "in_progress"
    /\ (Reserved \/ bf.pc = "mark_in_progress") =>
          /\ Len(docs') = Len(docs)
          /\ \A i \in DOMAIN docs : docs[i].id \notin ChunkIds(bf) => docs'[i] = docs[i]
          /\ (bf'.pc = "idle" /\ ret'.status \in {"interrupted", "err"}) => docs' = docs

\* The scan of a run with no limit selects every row left in_progress.
C3_Selects ==
    (bf.pc = "idle" /\ bf'.pc = "scanned" /\ bf'.limit_rows = None) =>
        \A i \in DOMAIN docs :
            docs[i].embedding_status = "in_progress" =>
                \E k \in DOMAIN bf'.to_process :
                    bf'.to_process[k] = [id |-> docs[i].id, content |-> docs[i].content,
                                         chash |-> docs[i].content_hash]

\* A full run with a working provider drives a row it finds in_progress to ready.
C3_Recovers ==
    \A i \in 1..MaxDocs :
        (FullWorkingRun /\ i \in DOMAIN docs /\ docs[i].embedding_status = "in_progress") ~>
            (bf.pc = "idle" /\ (ret.status = "interrupted" \/
                                 (i \in DOMAIN docs /\ docs[i].embedding_status = "ready")))

\* C3: a run cut off between reserving a chunk and marking it ready leaves the
\* chunk's rows in_progress and every other row as it was; a later run with no
\* limit selects those rows again and, with a working provider, drives them to ready.
C3_InterruptedBatchRecovers == [][C3_Batch /\ C3_Selects]_vars /\ C3_Recovers

\* One row, marked ready once, with two embeddings rows: the first run was cut off
\* after the append to embeddings, the second run finished the row.
C3_Witness ==
    /\ bf.pc = "idle" /\ ret.op = "backfill" /\ ret.status = "ok" /\ runs = 2
    /\ Len(docs) = 1 /\ docs[1].embedding_status = "ready" /\ docs[1].embedding_version = 1
    /\ Len(embeddings) = 2 /\ embeddings[1].id = docs[1].id /\ embeddings[2].id = docs[1].id

\* The embeddings rows of (id, embedder_id) with the greatest embedded_at.
LatestEmbeddings(id, embedder_id) ==
    LET mine == {j \in DOMAIN embeddings :
                    embeddings[j].id = id /\ embeddings[j].embedder_id = embedder_id}
    IN {j \in mine : \A k \in mine : embeddings[k].embedded_at <= embeddings[j].embedded_at}

\* C4: after a successful backfill run, for every ready documents row, get_many for
\* the row's content_hash and the provider's id returns the vector of the latest
\* embeddings row of (id, provider).
C4_ReadyCacheHit ==
    (bf.pc = "idle" /\ ret.op = "backfill" /\ ret.status = "ok") =>
        \A i \in DOMAIN docs :
            docs[i].embedding_status = "ready" =>
                LET hit == get_many(emb_cache, ActiveProvider, {docs[i].content_hash})
                    latest == LatestEmbeddings(docs[i].id, ActiveProvider)
                IN /\ docs[i].content_hash \in DOMAIN hit
                   /\ latest # {}
                   /\ \A j \in latest : embeddings[j].vector = hit[docs[i].content_hash]

\* C5: through a build, at most one meta row holds the active-index key; get_meta
\* returns the name found at the start of the build at every step before the flip
\* completes, and the new index's name at every step after it.
C5_FlipIsAtomic ==
    /\ Cardinality({i \in DOMAIN meta : meta[i].key = ActiveKey}) <= 1
    /\ bld.pc \in {"sync", "size", "build", "validate", "flip"}
          => get_meta(meta, ActiveKey) = bld.prev_active
    /\ bld.pc = "flipped" => get_meta(meta, ActiveKey) = Some(bld.index_name)

\* A second build has flipped the pointer from an earlier index to a new one.
C5_Witness ==
    /\ bld.pc = "flipped"
    /\ bld.prev_active # None
    /\ bld.prev_active # Some(bld.index_name)
    /\ get_meta(meta, ActiveKey) = Some(bld.index_name)

\* C6: a vector search made while meta names an active index is answered by that
\* index.
C6_SearchUsesActiveIndex ==
    (answer.status = "ok" /\ answer.active # None) => answer.active = Some(answer.by)

\* C7: a vector search made while meta names no active index returns
\* VectorIndexUnavailable.
C7_NoActiveIndexIsAnError ==
    (answer.status # "none" /\ answer.active = None)
        => answer.status = "VectorIndexUnavailable"

SetMax(S) == CHOOSE x \in S : \A y \in S : y <= x
SetMin(S) == CHOOSE x \in S : \A y \in S : x <= y

ScoresOf(hits, id) == {hits[i].score : i \in {j \in DOMAIN hits : hits[j].id = id}}

Merges == hy.pc \in {"answered", "requeried"}

\* C8: for every id among the lexical or the vector hits, the merge keeps one hit,
\* with the higher of the id's lexical and vector scores and the source that gave
\* it; when the two scores are equal the kept hit has source Vector.
C8_KeepsHigherScore ==
    Merges =>
        \A id \in MergedIds(hy.dense_hits, hy.text_hits) :
           LET vec == ScoresOf(hy.dense_hits, id)
               lex == ScoresOf(hy.text_hits, id)
               kept == {i \in DOMAIN hy.merged : hy.merged[i].id = id}
           IN /\ Cardinality(kept) = 1
              /\ \A i \in kept :
                    IF vec # {} /\ (lex = {} \/ SetMax(vec) >= SetMax(lex))
                    THEN hy.merged[i].source = "Vector" /\ hy.merged[i].score = SetMax(vec)
                    ELSE hy.merged[i].source = "Text" /\ hy.merged[i].score = SetMax(lex)

\* One id came back from both searchers with equal scores, another with a higher
\* lexical score.
C8_Witness ==
    /\ hy.pc = "answered"
    /\ ScoresOf(hy.dense_hits, "a") = {1} /\ ScoresOf(hy.text_hits, "a") = {1}
    /\ ScoresOf(hy.dense_hits, "b") = {0} /\ ScoresOf(hy.text_hits, "b") = {2}
    /\ \E i \in DOMAIN hy.merged : hy.merged[i].id = "a" /\ hy.merged[i].source = "Vector"
    /\ \E i \in DOMAIN hy.merged : hy.merged[i].id = "b" /\ hy.merged[i].source = "Text"

\* Hits of the two lists whose id the result does not carry.
Omitted ==
    {h \in {(hy.dense_hits \o hy.text_hits)[i] : i \in DOMAIN (hy.dense_hits \o hy.text_hits)} :
        \A r \in DOMAIN hy.result : hy.result[r].id # h.id}

\* C9: the result carries each id at most once, is at most k long, is in order of
\* non-increasing score, and no hit left out of it scores above its lowest score.
C9_RankedDedupedTopK ==
    Merges =>
        /\ \A i, j \in DOMAIN hy.result : hy.result[i].id = hy.result[j].id => i = j
        /\ Len(hy.result) <= hy.k
        /\ \A i, j \in DOMAIN hy.result : i < j => hy.result[i].score >= hy.result[j].score
        /\ \A h \in Omitted : \A r \in DOMAIN hy.result : h.score <= hy.result[r].score

\* The cut dropped an id, and an id that both searchers returned is in the result.
C9_Witness ==
    /\ hy.pc = "answered"
    /\ hy.k = 1
    /\ Len(hy.merged) = 2
    /\ Len(hy.result) = 1
    /\ Omitted # {}
    /\ ScoresOf(hy.dense_hits, hy.result[1].id) # {}
    /\ ScoresOf(hy.text_hits, hy.result[1].id) # {}

\* C10: after one hit has gone from the lexical or the vector list, the merge gives
\* at every rank of its result a score no higher than the first result had at
\* that rank.
C10_RemovalNeverRaises ==
    hy.pc = "requeried" =>
        \A r \in DOMAIN hy.result :
           /\ r \in DOMAIN hy.before
           /\ hy.result[r].score <= hy.before[r].score

\* The hit that went was the best of its id: a rank scores lower than it did.
C10_Witness ==
    /\ hy.pc = "requeried"
    /\ Len(hy.result) = 2
    /\ Len(hy.before) = 2
    /\ \E r \in DOMAIN hy.result : hy.result[r].score < hy.before[r].score

\* C11: every similarity score search_vec returns lies in [0, 1], whatever cosine
\* distance the store reported.
C11_ScoreInUnitRange ==
    answer.status = "ok" => \A score \in answer.score : 0 <= score /\ score <= ScoreOne

\* C12: after put_many(E) twice, every get_many(hashes, provider) returns the map
\* it returned after put_many(E) once.
C12_PutManyIdempotent ==
    (call.op = "put_many" /\ call.puts = 2) =>
        \A embedder_id \in Providers, hashes \in SUBSET Hashes :
            get_many(emb_cache, embedder_id, hashes) = get_many(call.once, embedder_id, hashes)

\* The second call wrote rows again, over a table that held another vector for one
\* of the keys: the first call had changed what get_many returns.
C12_Witness ==
    /\ call.op = "put_many" /\ call.puts = 2
    /\ Len(call.before) = 1
    /\ Len(call.once) = 3
    /\ Len(emb_cache) = 5
    /\ get_many(call.before, ActiveProvider, Hashes) # <<>>
    /\ get_many(call.before, ActiveProvider, Hashes) # get_many(call.once, ActiveProvider, Hashes)

\* C13: emb_cache holds at most one row per (content_hash, embedder_id).
C13_CacheOneRowPerKey ==
    \A i, j \in DOMAIN emb_cache :
        (/\ emb_cache[i].content_hash = emb_cache[j].content_hash
         /\ emb_cache[i].embedder_id = emb_cache[j].embedder_id) => i = j

\* C14: a LocalProvider over the fake embedder and one over the model have
\* different ids, so that a cache lookup under one's id returns no vector the
\* other wrote.
C14_ProviderIdsDiffer ==
    call.op = "providers" =>
        \A h \in DOMAIN call.cache_map : call.cache_map[h].by = call.inner

\* The ids of the chunk's rows whose content_hash has no cache row of the provider.
MissIds ==
    {Chunk(bf)[i].id : i \in {j \in DOMAIN Chunk(bf) :
        ~\E c \in DOMAIN emb_cache :
            /\ emb_cache[c].content_hash = Chunk(bf)[j].chash
            /\ emb_cache[c].embedder_id = ActiveProvider
            /\ emb_cache[c].vector.len = EMBEDDING_DIM}}

\* The provider has returned an error for the misses of the chunk.
EmbedFailed == bf.pc = "mark_error" /\ ret'.status # "interrupted"

\* C15: when embed_batch returns an error for a batch's misses, the rows of the miss
\* ids go to error with the message and no other row changes; nothing is written
\* to emb_cache or embeddings for the batch; the run goes on to the next batch, or
\* returns Ok after the last.
C15_EmbedErrorMarksMisses ==
    [][/\ (bf.pc = "embed" /\ bf'.pc = "mark_error") =>
             /\ MissIds # {}
             /\ UNCHANGED <<docs, embeddings, emb_cache>>
       /\ EmbedFailed =>
             /\ Len(docs') = Len(docs)
             /\ \A i \in DOMAIN docs :
                   IF docs[i].id \in MissIds
                   THEN /\ docs'[i].embedding_status = "error"
                        /\ docs'[i].embedding_error # None
                        /\ docs'[i].embedding_version = docs[i].embedding_version
                   ELSE docs'[i] = docs[i]
             /\ UNCHANGED <<embeddings, emb_cache>>
             /\ \/ /\ bf'.pc = "mark_in_progress"
                   /\ bf'.offset = bf.offset + bf.batch_size
                   /\ bf'.processed = bf.processed
                \/ /\ bf'.pc = "idle"
                   /\ bf.offset + bf.batch_size >= Len(bf.to_process)
                   /\ ret' = [op |-> "backfill", status |-> "ok", value |-> bf.processed]]_vars

\* A run of two batches has returned Ok(1): the provider failed on the first row,
\* which is in error with its message, and embedded the second, which is ready.
C15_Witness ==
    /\ bf.pc = "idle" /\ ret = [op |-> "backfill", status |-> "ok", value |-> 1]
    /\ Len(docs) = 2
    /\ docs[1].embedding_status = "error" /\ docs[1].embedding_error # None
    /\ docs[2].embedding_status = "ready"
    /\ Len(embeddings) = 1 /\ embeddings[1].id = docs[2].id
    /\ Len(emb_cache) = 1 /\ emb_cache[1].content_hash = docs[2].content_hash

\* C16: a row that ingest appends to documents starts with vector = NULL,
\* embedding_status = new, embedding_version = 0 and index_status = stale.
C16_IngestStartsNew ==
    [][Len(docs') = Len(docs) + 1 =>
          /\ docs'[Len(docs')].vector = None
          /\ docs'[Len(docs')].embedding_status = "new"
          /\ docs'[Len(docs')].embedding_version = 0
          /\ docs'[Len(docs')].index_status = "stale"]_vars

\* The chunks process_directory returned.
Chunks == {call.chunks[i] : i \in DOMAIN call.chunks}

\* C17: every chunk has 0 <= chunk_index < total_chunks; the chunk_index values of
\* one doc_id are the numbers from 0 up to the greatest of them; the chunks of one
\* doc_id carry the same total_chunks.
C17_ChunkIndexWithinTotal ==
    (call.op = "process_directory" /\ call.pc = "returned") =>
        /\ \A c \in Chunks : 0 <= c.chunk_index /\ c.chunk_index < c.total_chunks
        /\ \A c \in Chunks :
              \A n \in 0..c.chunk_index :
                 \E b \in Chunks : b.doc_id = c.doc_id /\ b.chunk_index = n
        /\ \A b, c \in Chunks : b.doc_id = c.doc_id => b.total_chunks = c.total_chunks

\* r is the whole part of the square root of n.
FloorSqrt(n, r) == r >= 0 /\ r * r <= n /\ n \div (r + 1) < r + 1

Sized == call.op = "compute_ivfpq_params" /\ call.pc = "returned"

\* C18: compute_ivfpq_params(N, D) returns nlist = 1 when N <= 1 and otherwise
\* nlist = min(max(2048, 2*floor(sqrt(N))), 65536, N-1), so 1 <= nlist <= N-1 for
\* every N >= 2; it always returns nbits = 8.
C18_NlistFormula ==
    Sized =>
        LET N == call.total_ready
            r == Isqrt(N)
        IN /\ FloorSqrt(N, r)
           /\ N <= 1 => call.params.nlist = 1
           /\ N > 1 => call.params.nlist = SetMin({SetMax({2048, 2 * r}), 65536, N - 1})
           /\ N >= 2 => 1 <= call.params.nlist /\ call.params.nlist <= N - 1
           /\ call.params.nbits = 8

\* A tiny dataset, where N - 1 is the least of the three.
C18_Witness == Sized /\ call.total_ready >= 2 /\ call.params.nlist = call.total_ready - 1

\* C19: when embed_batch answers with the wrong number of vectors or a vector of
\* the wrong length, the run is not aborted and the rows are not left in_progress:
\* the embed step ends the run only when the process is cut off, and a run that
\* has returned an error has left no row in_progress.
C19_BadVectorsDoNotAbort ==
    [][/\ (bf.pc = "embed" /\ bf'.pc = "idle") => ret'.status = "interrupted"
       /\ (bf.pc # "idle" /\ ret'.status = "err") =>
             \A i \in DOMAIN docs' : docs'[i].embedding_status # "in_progress"]_vars

\* The ids of the chunk that the cache answers and that no miss row shares.
HitIds20 == {Chunk(bf)[i].id : i \in DOMAIN Chunk(bf)} \ MissIds

\* C20: in a batch of hits and misses whose embedding fails, the hit rows still get
\* their embeddings rows and end the batch ready; only the miss rows end in error.
C20_HitsSurviveFailedMisses ==
    [][EmbedFailed =>
          /\ \A i \in DOMAIN docs' :
                docs'[i].id \in HitIds20 => docs'[i].embedding_status = "ready"
          /\ \A id \in HitIds20 :
                \E e \in DOMAIN embeddings' :
                   /\ e > Len(embeddings)
                   /\ embeddings'[e].id = id
          /\ \A i \in DOMAIN docs' :
                docs'[i].embedding_status = "error" /\ docs[i].embedding_status # "error"
                   => docs'[i].id \in MissIds]_vars

\* A run has just returned Ok.
ReturnedOk == bf.pc = "idle" /\ ret.op = "backfill" /\ ret.status = "ok"

\* Row i is the only documents row of its id.
OneRowOfId(i) == \A j \in DOMAIN docs : docs[j].id = docs[i].id => j = i

\* C21: a row (the only one of its id) whose stored content_hash disagrees with the hash of its content is
\* treated as new and re-embedded, even when it is ready: after a run a row is
\* ready only if documents.content_hash is the hash of its content and an
\* embeddings row of its id carries that hash.
C21_EditedRowIsReembedded ==
    ReturnedOk =>
        \A i \in DOMAIN docs :
           (docs[i].embedding_status = "ready" /\ OneRowOfId(i)) =>
              /\ docs[i].content_hash = hash_content(docs[i].content)
              /\ \E e \in DOMAIN embeddings :
                    /\ embeddings[e].id = docs[i].id
                    /\ embeddings[e].content_hash = hash_content(docs[i].content)

\* The rows a step changes.
ChangedRows == {i \in DOMAIN docs : docs'[i] # docs[i]}

\* C22: a run with limit_rows = L (0 included) takes a frontier of at most L rows,
\* changes only rows of that frontier and returns a processed count of at most L.
C22_LimitCapsTheRun ==
    [][\A L \in bf.limit_rows :
          bf.pc # "idle" =>
             /\ Len(bf.to_process) <= L
             /\ \A i \in ChangedRows :
                   \E k \in DOMAIN bf.to_process : bf.to_process[k].id = docs[i].id
             /\ (bf'.pc = "idle" /\ ret'.status = "ok") => ret'.value <= L]_vars

\* C23: a row's embedding_version never decreases and grows by exactly 1 each time
\* the backfill moves the row to ready, and at no other step; that update clears
\* embedding_error and sets embedded_at; every ready row has a null embedding_error.
C23_VersionGrowsWithReady ==
    /\ [](\A i \in DOMAIN docs :
             docs[i].embedding_status = "ready" => docs[i].embedding_error = None)
    /\ [][\A i \in DOMAIN docs :
             /\ docs'[i].embedding_version >= docs[i].embedding_version
             /\ (docs[i].embedding_status # "ready" /\ docs'[i].embedding_status = "ready") =>
                   /\ docs'[i].embedding_version = docs[i].embedding_version + 1
                   /\ docs'[i].embedding_error = None
                   /\ docs'[i].embedded_at # None
             /\ docs'[i].embedding_version # docs[i].embedding_version =>
                   docs'[i].embedding_status = "ready"]_vars

\* A run has returned and a row stands at version 2: it was ready at version 1 and
\* the backfill has made it ready again.
C23_Witness ==
    /\ ReturnedOk
    /\ \E i \in DOMAIN docs :
          /\ docs[i].embedding_status = "ready"
          /\ docs[i].embedding_version = 2
          /\ docs[i].embedding_error = None
          /\ docs[i].embedded_at # None

\* The sync step of the build script.
Synced == bld.pc = "sync" /\ bld'.pc = "size"

C25_LatestEmbeddingWins ==
    [][Synced =>
          /\ \A i \in DOMAIN docs' :
                LatestEmbeddings(docs'[i].id, ActiveProvider) # {} =>
                   \E j \in LatestEmbeddings(docs'[i].id, ActiveProvider) :
                      docs'[i].vector = Some(embeddings[j].vector)
          /\ (\A i \in DOMAIN docs : OneRowOfId(i)) =>
                \A i, k \in DOMAIN docs' : docs'[i].id = docs'[k].id => i = k]_vars

\* C26: validate_index reports the build valid exactly when every probe has returned
\* at least one result, one empty probe making it invalid; the script flips the
\* active pointer only after a validation that returned true.
C26_ValidIffEveryProbeAnswers ==
    [][/\ (bld.pc = "validate" /\ bld'.pc = "flip") =>
             Probes(docs, VALIDATE_SAMPLE) \subseteq bld'.answered
       /\ (bld.pc = "validate" /\ bld'.pc = "idle" /\ bld'.answered # {}) =>
             ~(Probes(docs, VALIDATE_SAMPLE) \subseteq bld'.answered)
       /\ meta' # meta => bld.pc = "flip"]_vars

\* The greatest divisor of d that is at most n.
LargestDivisorUpTo(d, n) == SetMax({k \in 1..n : d % k = 0})

\* C27: the number m of PQ sub-vectors compute_ivfpq_params returns divides D: it is
\* 32 when D >= 1024 and 16 otherwise when that default divides D, and the largest
\* divisor of D not above the default when it does not.
C27_SubVectorsDivideDim ==
    Sized =>
        LET D == call.dim
            default == IF D >= 1024 THEN 32 ELSE 16
        IN /\ D % call.params.m = 0
           /\ call.params.m = LargestDivisorUpTo(D, default)

\* C28: the chunk ids one process_directory call emits are pairwise distinct.
C28_ChunkIdsDistinct ==
    (call.op = "process_directory" /\ call.pc = "returned") =>
        \A i, k \in DOMAIN call.chunks : call.chunks[i].id = call.chunks[k].id => i = k

\* The embeddings rows of documents row i.
EmbeddingsOf(i) == {e \in DOMAIN embeddings : embeddings[e].id = docs[i].id}

\* C29: when two runs execute concurrently over the same table and provider, no
\* row (the only one of its id) is processed by both: none gets two embeddings rows
\* or two embedding_version increments, and none that one run has marked ready is
\* moved back to in_progress by the other.
C29_NoRowProcessedTwice ==
    /\ [](\A i \in DOMAIN docs :
             OneRowOfId(i) =>
                /\ Cardinality(EmbeddingsOf(i)) <= 1
                /\ docs[i].embedding_version <= 1)
    /\ [][\A i \in DOMAIN docs :
             OneRowOfId(i) =>
                ~(docs[i].embedding_status = "ready"
                  /\ docs'[i].embedding_status = "in_progress")]_vars

SplitReturned == call.op = "split_paragraph_with_overlap" /\ call.pc = "returned"

\* C30: for a paragraph of W words that exceeds max_tokens, the loop of
\* split_paragraph_with_overlap terminates; every window it returns except the last
\* has exactly 300 words, each window starts 240 words after the one before it, the
\* last window ends at word W, and every word lies in at least one window.
C30_WindowsCoverParagraph ==
    /\ <>SplitReturned
    /\ [](SplitReturned =>
            LET W == call.words
                w == call.chunks
            IN /\ count_tokens(W) > MAX_TOKENS
               /\ w = split_paragraph_with_overlap(W)
               /\ Len(w) >= 1
               /\ \A k \in 1..(Len(w) - 1) : w[k].end - w[k].start = 300
               /\ \A k \in 2..Len(w) : w[k].start = w[k - 1].start + 240
               /\ w[Len(w)].end = W
               /\ \A word \in 0..(W - 1) :
                     \E k \in DOMAIN w : w[k].start <= word /\ word < w[k].end)

\* A paragraph cut into four windows, the last of them short.
C30_Witness ==
    /\ SplitReturned
    /\ Len(call.chunks) = 4
    /\ call.chunks[4].end - call.chunks[4].start < 300

====
